---- MODULE Spec2Model ----
(***************************************************************************)
(* Flood Alert System REST API (backend/app.py).                           *)
(*                                                                         *)
(* The state is the spatial store's two tables the API writes to, and the  *)
(* request being handled with its response and its database effects.  Each *)
(* Flask view function is one action, taken when no request is in          *)
(* progress; Respond ends the request.  The store's behaviour towards a    *)
(* request (connect refused, statement raising, the rows a query returns)  *)
(* is an input of the action.  SpecGeo runs geojson_from_query alone, on   *)
(* rows of every shape.                                                    *)
(*                                                                         *)
(* Units: risk scores are in thousandths, coordinates in hundredths of a   *)
(* degree, rainfall in tenths of a millimetre.                             *)
(***************************************************************************)
EXTENDS Integers, Sequences, FiniteSets, TLC

\* ------------------------------------------------------------------ bounds
\* Longest row sequence a query returns.
MaxRows == 2
\* Ids the two insert sequences hand out in a behaviour, in total.
MaxIds == 2

\* Connections left open that a run may accumulate.
MaxOpen == 2

\* ------------------------------------------------------- Python / JSON values
\* A JSON value as Python sees it: k is its type, n its number (or length).
Absent == [k |-> "absent", n |-> 0]
Num(n) == [k |-> "num", n |-> n]
NumStr(n) == [k |-> "numstr", n |-> n]
EmptyStr == [k |-> "str", n |-> 0]
Text == [k |-> "str", n |-> 1]
List1 == [k |-> "list", n |-> 1]

\* Optional values (None or a value).
None == [isNone |-> TRUE, v |-> 0]
Some(x) == [isNone |-> FALSE, v |-> x]

\* dict.get(key): an absent key reads as None, like a JSON null.
IsNone(v) == v.k \in {"absent", "null"}

\* Python truthiness, as `not x` uses it.
Truthy(v) ==
    CASE v.k \in {"absent", "null"} -> FALSE
      [] v.k = "num" -> v.n # 0
      [] v.k = "numstr" -> TRUE
      [] v.k \in {"str", "list"} -> v.n # 0

\* float(x): the value, or the exception it raises.
ToFloat(v) ==
    CASE v.k \in {"num", "numstr"} -> [exc |-> "none", v |-> v.n]
      [] v.k = "str" -> [exc |-> "ValueError", v |-> 0]
      [] OTHER -> [exc |-> "TypeError", v |-> 0]

\* dict.get(key, default)
GetDefault(v, d) == IF v.k = "absent" THEN d ELSE v

\* round(x, 2) of a number in thousandths, ties to even (which way a tie of
\* a binary float goes depends on its representation; no input here is one).
Round2(s) ==
    LET q == s \div 10
        r == s % 10
    IN  IF r < 5 THEN q * 10
        ELSE IF r > 5 THEN (q + 1) * 10
        ELSE IF q % 2 = 0 THEN q * 10 ELSE (q + 1) * 10

\* ---------------------------------------------------------------- responses
\* A response: its status, who built it (a view function's return, a
\* registered error handler, or Flask itself) and its JSON body
\* (an HTML page has no JSON body: the empty record).
Resp(status, by, body) == [status |-> status, by |-> by, body |-> body]
jsonify(body) == Resp(200, "handler", body)
NoBody == <<>>

not_found == Resp(404, "errorhandler", [error |-> "Endpoint not found"])
internal_error == Resp(500, "errorhandler", [error |-> "Internal server error"])

\* Mutant of Error400: the message goes under another key.
Error400Message(msg) == Resp(400, "handler", [message |-> msg])

\* return jsonify({'error': msg}), 400 and ..., 500
Error400(msg) == Resp(400, "handler", [error |-> msg])
Error500(msg) == Resp(500, "handler", [error |-> msg])

\* An exception leaving a view function: the registered 500 handler answers,
\* unless the exception is propagated (DEBUG = True under app.run) and the
\* debugger's HTML page is served.
Unhandled(mode) ==
    IF mode = "debug" THEN Resp(500, "framework", NoBody) ELSE internal_error

\* request.get_json() on a body that is not JSON: Flask answers 400 itself.
BadRequest == Resp(400, "framework", NoBody)

\* -------------------------------------------------------- database effects
\* What a request did to the store: calls of get_db_connection, connections
\* opened and closed, statements executed, the transaction's end, the row id
\* an INSERT produced (0: none), whether that row is committed, and the values
\* bound to the statement's placeholders.
NoEff ==
    [conns |-> 0, opened |-> 0, closed |-> 0, stmts |-> 0,
     tx |-> "none", inserted |-> 0, committed |-> FALSE, params |-> <<>>]

\* Mutant of Rejected: the connection is taken before the body is validated.
RejectedAfterConnect(msg) ==
    [resp |-> Error400(msg),
     eff |-> [NoEff EXCEPT !.conns = 1, !.opened = 1, !.closed = 1]]

\* A view function returning 400 from its validation, before it asks for a
\* connection.
Rejected(msg) == [resp |-> Error400(msg), eff |-> NoEff]

\* get_db_connection(): a connection, or None when psycopg2.connect raises.
get_db_connection(env) == env.out # "connfail"

\* execute_query(query, params, fetch_one): the rows (one row or None under
\* fetch_one), or None when no connection is had or a statement raises.
\* env.out is the store's behaviour: "connfail", "queryfail" or "rows".
execute_query(env, params, fetch_one) ==
    IF ~get_db_connection(env)
    THEN [result |-> None, eff |-> [NoEff EXCEPT !.conns = 1]]
    ELSE IF env.out = "queryfail"
    THEN [result |-> None,
          eff |-> [NoEff EXCEPT !.conns = 1, !.opened = 1, !.closed = 1,
                                !.stmts = 1, !.params = params]]
    ELSE [result |-> IF fetch_one
                     THEN IF env.rows = <<>> THEN None ELSE Some(Head(env.rows))
                     ELSE Some(env.rows),
          eff |-> [NoEff EXCEPT !.conns = 1, !.opened = 1, !.closed = 1,
                                !.stmts = 1, !.params = params]]

\* ----------------------------------------------------------------- geometry
\* Serialised geometry as ST_AsGeoJSON produces it, and text that is no JSON.
PointText == "{\"type\":\"Point\"}"
PolygonText == "{\"type\":\"Polygon\"}"
BadText == "{\"type\":"
GeoStr(s) == [k |-> "text", s |-> s]
GeoAbsent == [k |-> "absent", s |-> ""]
GeoNull == [k |-> "null", s |-> ""]

\* json.loads(text): the object, or JSONDecodeError.
json_loads(s) ==
    CASE s = PointText -> [ok |-> TRUE, v |-> [type |-> "Point"]]
      [] s = PolygonText -> [ok |-> TRUE, v |-> [type |-> "Polygon"]]
      [] OTHER -> [ok |-> FALSE, v |-> [type |-> ""]]

\* Truthiness of a column value: None and "" are falsy.
GeoTruthy(g) == g.k = "text" /\ g.s # ""

\* A row (RealDictRow): a mapping from column names to values.  RowOf builds
\* the row with column id, and geom / geometry unless given as GeoAbsent.
RowOf(id, g, y) ==
    [c \in {"id"} \cup (IF g.k = "absent" THEN {} ELSE {"geom"})
                  \cup (IF y.k = "absent" THEN {} ELSE {"geometry"}) |->
        CASE c = "id" -> id
          [] c = "geom" -> g
          [] c = "geometry" -> y]

\* row.get(key): None for a key the row lacks.
RowGet(row, key) == IF key \in DOMAIN row THEN row[key] ELSE GeoNull

\* {k: v for k, v in row.items() if k not in ['geom', 'geometry']}
PropertiesOf(row) == [c \in DOMAIN row \ {"geom", "geometry"} |-> row[c]]

\* Mutant of geom_data: geometry is consulted only when the row has no geom
\* key.
geom_dataByKey(row) ==
    IF "geom" \in DOMAIN row THEN RowGet(row, "geom")
    ELSE RowGet(row, "geometry")

\* row.get('geom') or row.get('geometry')
geom_data(row) ==
    IF GeoTruthy(RowGet(row, "geom")) THEN RowGet(row, "geom")
    ELSE RowGet(row, "geometry")

\* Mutant of AppendFeature: a payload that fails to parse ends the
\* collection instead of being skipped.
AppendFeatureAborting(features, row) ==
    LET g == geom_data(row)
    IN  IF GeoTruthy(g)
        THEN IF json_loads(g.s).ok
             THEN Append(features,
                         [type |-> "Feature",
                          geometry |-> json_loads(g.s).v,
                          properties |-> PropertiesOf(row)])
             ELSE <<>>
        ELSE features

\* The loop body of geojson_from_query: the features with this row's added.
AppendFeature(features, row) ==
    LET g == geom_data(row)
    IN  IF GeoTruthy(g)
        THEN IF json_loads(g.s).ok
             THEN Append(features,
                         [type |-> "Feature",
                          geometry |-> json_loads(g.s).v,
                          properties |-> PropertiesOf(row)])
             ELSE features
        ELSE features

RECURSIVE FeaturesOf(_, _)
FeaturesOf(rows, features) ==
    IF rows = <<>> THEN features
    ELSE FeaturesOf(Tail(rows), AppendFeature(features, Head(rows)))

EmptyCollection == [type |-> "FeatureCollection", features |-> <<>>]

\* geojson_from_query on the result of execute_query.
Project(result) ==
    IF result.isNone THEN EmptyCollection
    ELSE [type |-> "FeatureCollection", features |-> FeaturesOf(result.v, <<>>)]

geojson_from_query(env, params) ==
    LET q == execute_query(env, params, FALSE)
    IN  [body |-> Project(q.result), eff |-> q.eff]

\* ------------------------------------------------------ collection endpoints
CollectionEndpoints ==
    {"regions", "risk-zones", "alerts", "alerts/active", "rainfall",
     "rainfall/stations", "water-bodies", "elevation"}

\* The filters each endpoint reads from the query string, in the order it
\* appends their clauses.
FiltersOf(ep) ==
    CASE ep = "risk-zones" -> <<"region_id", "risk_level", "min_score">>
      [] ep = "rainfall" -> <<"station_id", "region_id">>
      [] ep = "water-bodies" -> <<"type">>
      [] ep = "elevation" -> <<"region_id", "max_elevation">>
      [] OTHER -> <<>>

\* params.append(x) for each filter whose value is truthy (a filter given
\* as 0 or "" is not applied).
RECURSIVE AppliedFilters(_, _)
AppliedFilters(names, args) ==
    IF names = <<>> THEN <<>>
    ELSE (IF Truthy(args[Head(names)]) THEN <<args[Head(names)]>> ELSE <<>>)
         \o AppliedFilters(Tail(names), args)

\* The values bound to the endpoint's query: /api/alerts always binds its
\* limit (default 50); the others bind their applied filters, or None.
ParamsOf(ep, args) ==
    IF ep = "alerts" THEN <<GetDefault(args["limit"], Num(50))>>
    ELSE AppliedFilters(FiltersOf(ep), args)

\* Mutant of get_collection: a failed query is reported as a 500.
get_collection_reporting(ep, args, env) ==
    LET q == execute_query(env, ParamsOf(ep, args), FALSE)
    IN  IF q.result.isNone
        THEN [resp |-> Error500("Database error"), eff |-> q.eff]
        ELSE [resp |-> jsonify(Project(q.result)), eff |-> q.eff]

\* get_regions, get_risk_zones, get_alerts, get_active_alerts, get_rainfall,
\* get_rainfall_stations, get_water_bodies, get_elevation.
get_collection(ep, args, env) ==
    LET g == geojson_from_query(env, ParamsOf(ep, args))
    IN  [resp |-> jsonify(g.body), eff |-> g.eff]

\* ------------------------------------------------- single-resource endpoints
\* get_region
get_region(region_id, env, mode) ==
    LET q == execute_query(env, <<region_id>>, TRUE)
    IN  IF ~q.result.isNone
        THEN LET data == q.result.v
             IN  IF GeoTruthy(RowGet(data, "geom"))
                 THEN IF json_loads(data["geom"].s).ok
                      THEN [resp |-> jsonify(
                                [id |-> data["id"],
                                 geometry |-> json_loads(data["geom"].s).v]),
                            eff |-> q.eff]
                      ELSE [resp |-> Unhandled(mode), eff |-> q.eff]
                 ELSE [resp |-> jsonify(data), eff |-> q.eff]
        ELSE [resp |-> Resp(404, "handler", [error |-> "Region not found"]),
              eff |-> q.eff]

\* get_statistics
get_statistics(env) ==
    LET q == execute_query(env, <<>>, TRUE)
    IN  IF ~q.result.isNone
        THEN [resp |-> jsonify(q.result.v), eff |-> q.eff]
        ELSE [resp |-> Resp(500, "handler",
                            [error |-> "Could not fetch statistics"]),
              eff |-> q.eff]

\* health_check: the connection is closed on the healthy path only.
health_check(env) ==
    IF get_db_connection(env)
    THEN IF env.out = "queryfail"
         THEN [resp |-> Resp(500, "handler",
                             [status |-> "unhealthy", database |-> "error",
                              timestamp |-> "iso"]),
               eff |-> [NoEff EXCEPT !.conns = 1, !.opened = 1, !.stmts = 1]]
         ELSE [resp |-> jsonify([status |-> "healthy", database |-> "connected",
                                 timestamp |-> "iso"]),
               eff |-> [NoEff EXCEPT !.conns = 1, !.opened = 1, !.closed = 1,
                                     !.stmts = 1]]
    ELSE [resp |-> Resp(500, "handler",
                        [status |-> "unhealthy", database |-> "disconnected",
                         timestamp |-> "iso"]),
          eff |-> [NoEff EXCEPT !.conns = 1]]

\* ------------------------------------------------------------ calculate-risk
CriticalThreshold == 75000
HighThreshold == 50000
ModerateThreshold == 25000

\* Mutant of RiskLevel: the score is rounded to 2 decimals before the
\* comparisons.
RiskLevelOfRounded(risk_score) ==
    LET r == Round2(risk_score)
    IN  IF r >= CriticalThreshold
        THEN [level |-> "critical",
              description |-> "Severe flood risk - immediate action required"]
        ELSE IF r >= HighThreshold
        THEN [level |-> "high",
              description |-> "High flood risk - stay alert and prepared"]
        ELSE IF r >= ModerateThreshold
        THEN [level |-> "moderate",
              description |-> "Moderate flood risk - monitor conditions"]
        ELSE [level |-> "low", description |-> "Low flood risk"]

\* The if / elif chain of calculate_risk on the score as the store gave it.
RiskLevel(risk_score) ==
    IF risk_score >= CriticalThreshold
    THEN [level |-> "critical",
          description |-> "Severe flood risk - immediate action required"]
    ELSE IF risk_score >= HighThreshold
    THEN [level |-> "high",
          description |-> "High flood risk - stay alert and prepared"]
    ELSE IF risk_score >= ModerateThreshold
    THEN [level |-> "moderate",
          description |-> "Moderate flood risk - monitor conditions"]
    ELSE [level |-> "low", description |-> "Low flood risk"]

\* `not data`: None and the empty object are falsy.
DataTruthy(data) ==
    /\ data.k = "object"
    /\ \/ data.extra
       \/ \E f \in DOMAIN data \ {"k", "extra"} : data[f].k # "absent"

\* The first exception float(lat), float(lng) raise, in that order.
FloatExc(lat, lng) ==
    IF ToFloat(lat).exc # "none" THEN ToFloat(lat).exc ELSE ToFloat(lng).exc

\* The 200 body of calculate_risk.
RiskBody(lat, lng, risk_score) ==
    [success |-> TRUE, lat |-> lat, lng |-> lng,
     risk_score |-> Round2(risk_score),
     risk_level |-> RiskLevel(risk_score).level,
     description |-> RiskLevel(risk_score).description,
     calculated_at |-> "iso"]

\* Mutant of CoordsMissing: `and` for `or`.
CoordsMissingBoth(lat, lng) == ~Truthy(lat) /\ ~Truthy(lng)

\* The coordinate check of calculate_risk.
CoordsMissing(lat, lng) == ~Truthy(lat) \/ ~Truthy(lng)

calculate_risk(data, env, mode) ==
    IF data.k = "malformed" THEN [resp |-> BadRequest, eff |-> NoEff]
    ELSE IF ~DataTruthy(data)
    THEN Rejected("No data provided")
    ELSE IF CoordsMissing(data.lat, data.lng)
    THEN Rejected("lat and lng required")
    ELSE IF FloatExc(data.lat, data.lng) = "ValueError"
    THEN Rejected("Invalid coordinates")
    ELSE IF FloatExc(data.lat, data.lng) = "TypeError"
    THEN [resp |-> Unhandled(mode), eff |-> NoEff]
    ELSE LET lat == ToFloat(data.lat).v
             lng == ToFloat(data.lng).v
             q == execute_query(env, <<lng, lat>>, TRUE)
         IN  IF ~q.result.isNone /\ ~q.result.v.risk_score.isNone
             THEN [resp |-> jsonify(RiskBody(lat, lng,
                                             q.result.v.risk_score.v)),
                   eff |-> q.eff]
             ELSE [resp |-> Resp(500, "handler",
                        [success |-> FALSE,
                         error |-> "Could not calculate risk - insufficient data"]),
                   eff |-> q.eff]

\* ------------------------------------------------------------- write endpoints
\* Region ids of the store's regions table (the API never inserts regions).
Regions == {1}

\* Where a step of the write path raises: conn.cursor(), cur.execute(),
\* cur.fetchone(), conn.commit(), cur.close(); or nowhere.
WriteFaults == {"none", "cursor", "execute", "fetch", "commit", "close"}

\* str(e) of the exception a step raised.
ErrMsg(fault) ==
    CASE fault = "cursor" -> "cursor failed"
      [] fault = "execute" -> "statement failed"
      [] fault = "fetch" -> "no results to fetch"
      [] fault = "commit" -> "commit failed"
      [] fault = "close" -> "cursor close failed"
      [] OTHER -> ""

\* The try / except of add_rainfall and create_alert on an open connection:
\* execute the INSERT ... RETURNING (which yields a row iff `yields`, with id
\* `id`), fetch, commit, close, build the response `body`.  A step that
\* raises goes to the except clause: rollback, close, 500 with str(e).
\* Building the response from no row (result is None) raises after the
\* connection is closed, and the except clause's conn.rollback() then raises
\* itself (connection already closed), so the exception leaves the view.
WritePath(env, params, yields, id, body, mode) ==
    LET base == [NoEff EXCEPT !.conns = 1, !.opened = 1, !.closed = 1,
                              !.params = params]
        row == IF yields THEN id ELSE 0
    IN  CASE env.fault = "cursor" ->
               [resp |-> Error500(ErrMsg(env.fault)),
                eff |-> [base EXCEPT !.tx = "rolled_back"]]
          [] env.fault = "execute" ->
               [resp |-> Error500(ErrMsg(env.fault)),
                eff |-> [base EXCEPT !.stmts = 1, !.tx = "rolled_back"]]
          [] env.fault \in {"fetch", "commit"} ->
               [resp |-> Error500(ErrMsg(env.fault)),
                eff |-> [base EXCEPT !.stmts = 1, !.tx = "rolled_back",
                                     !.inserted = row]]
          [] env.fault = "close" ->
               [resp |-> Error500(ErrMsg(env.fault)),
                eff |-> [base EXCEPT !.stmts = 1, !.tx = "committed",
                                     !.inserted = row, !.committed = yields]]
          [] OTHER ->
               IF yields
               THEN [resp |-> jsonify(body),
                     eff |-> [base EXCEPT !.stmts = 1, !.tx = "committed",
                                          !.inserted = row, !.committed = TRUE]]
               ELSE [resp |-> Unhandled(mode),
                     eff |-> [base EXCEPT !.stmts = 1, !.tx = "committed"]]

\* The mandatory-field checks.
RainfallMissing(data) == ~Truthy(data.station_id) \/ IsNone(data.rainfall_mm)
AlertMissing(data) == ~Truthy(data.region_id) \/ ~Truthy(data.message)

DefaultRainfallHours == 1
DefaultAlertHours == 24
DefaultAlertLevel == [k |-> "str", n |-> 7]

\* add_rainfall; id is the next value of rainfall_data's id sequence.
add_rainfall(data, env, mode, id) ==
    IF data.k = "malformed" THEN [resp |-> BadRequest, eff |-> NoEff]
    ELSE IF ~DataTruthy(data)
    THEN Rejected("No data provided")
    ELSE IF RainfallMissing(data)
    THEN Rejected("station_id and rainfall_mm required")
    ELSE IF ~get_db_connection(env)
    THEN [resp |-> Error500("Database connection failed"),
          eff |-> [NoEff EXCEPT !.conns = 1]]
    ELSE WritePath(env,
                   <<data.station_id, data.rainfall_mm,
                     GetDefault(data.duration_hours, Num(DefaultRainfallHours))>>,
                   TRUE, id,
                   [success |-> TRUE, id |-> id, recorded_at |-> "iso",
                    station_id |-> data.station_id,
                    rainfall_mm |-> data.rainfall_mm],
                   mode)

\* create_alert; the INSERT ... SELECT ... FROM regions WHERE id = region_id
\* yields a row only for the id of a region.
create_alert(data, env, mode, id) ==
    IF data.k = "malformed" THEN [resp |-> BadRequest, eff |-> NoEff]
    ELSE IF ~DataTruthy(data)
    THEN Rejected("No data provided")
    ELSE IF AlertMissing(data)
    THEN Rejected("region_id and message required")
    ELSE IF ~get_db_connection(env)
    THEN [resp |-> Error500("Database connection failed"),
          eff |-> [NoEff EXCEPT !.conns = 1]]
    ELSE WritePath(env,
                   <<data.region_id,
                     GetDefault(data.alert_level, DefaultAlertLevel),
                     data.message,
                     GetDefault(data.duration_hours, Num(DefaultAlertHours)),
                     data.region_id>>,
                   data.region_id.k = "num" /\ data.region_id.n \in Regions, id,
                   [success |-> TRUE, alert_id |-> id, issued_at |-> "iso",
                    expires_at |-> "iso"],
                   mode)

\* ------------------------------------------------------------------- inputs
\* How the application is run: app.run(debug=Config.DEBUG) or under a server.
Modes == {"debug", "server"}

\* Scores calculate_flood_risk returns (thousandths), around the thresholds.
Scores ==
    {0, 24994, 24999, 25000, 49999, 50000, 74994, 74999, 75000, 82400, 100000}

\* Values a coordinate takes in a request body.
CoordValues == {Absent, Num(0), Num(-1539), NumStr(3533), Text, List1}

\* Request bodies: not JSON, JSON null, or an object (extra: it has a key the
\* handler does not read).
Malformed == [k |-> "malformed"]
NullBody == [k |-> "null"]

RiskBodies ==
    {Malformed, NullBody}
    \cup {[k |-> "object", lat |-> a, lng |-> b, extra |-> FALSE] :
            a \in CoordValues, b \in CoordValues}
    \cup {[k |-> "object", lat |-> Absent, lng |-> Absent, extra |-> TRUE]}

RainfallBodies ==
    {Malformed, NullBody}
    \cup {[k |-> "object", station_id |-> s, rainfall_mm |-> r,
           duration_hours |-> d, extra |-> FALSE] :
            s \in {Absent, Num(0), Num(1)}, r \in {Absent, Num(0), Num(125)},
            d \in {Absent, Num(3)}}

AlertBodies ==
    {Malformed, NullBody}
    \cup {[k |-> "object", region_id |-> r, message |-> m, alert_level |-> l,
           duration_hours |-> d, extra |-> FALSE] :
            r \in {Absent, Num(0), Num(1), Num(9)},
            m \in {Absent, EmptyStr, Text},
            l \in {Absent, [k |-> "str", n |-> 9]},
            d \in {Absent, Num(48)}}

\* Query-string filters by name, as request.args.get(name, type=...) reads them.
ArgValues(name) ==
    CASE name \in {"region_id", "station_id", "limit"} ->
             {Absent, Num(0), Num(1)}
      [] name \in {"min_score", "max_elevation"} -> {Absent, Num(500)}
      [] OTHER -> {Absent, Text}

ArgNames(ep) ==
    IF ep = "alerts" THEN {"limit"}
    ELSE {FiltersOf(ep)[i] : i \in DOMAIN FiltersOf(ep)}

ArgsOf(ep) ==
    {a \in [ArgNames(ep) -> {Absent, Num(0), Num(1), Num(500), Text}] :
        \A n \in ArgNames(ep) : a[n] \in ArgValues(n)}

\* Row sequences of length n whose i-th row has id i.
RECURSIVE SeqsOf(_, _, _)
SeqsOf(n, geoms, geometries) ==
    IF n = 0 THEN {<<>>}
    ELSE {Append(p, RowOf(n, g, y)) :
            p \in SeqsOf(n - 1, geoms, geometries),
            g \in geoms, y \in geometries}

\* What ST_AsGeoJSON(...) AS geom gives the collection queries.
StoreRowSeqs ==
    UNION {SeqsOf(n, {GeoNull, GeoStr(PointText)}, {GeoAbsent}) : n \in 0..MaxRows}

\* The store's behaviour towards a read: no connection, a failing statement,
\* or a result.
ReadEnvs(results) ==
    {[out |-> "connfail", rows |-> <<>>], [out |-> "queryfail", rows |-> <<>>]}
    \cup {[out |-> "rows", rows |-> r] : r \in results}

\* ... and towards a write.
WriteEnvs ==
    {[out |-> "connfail", fault |-> "none"]}
    \cup {[out |-> "ok", fault |-> f] : f \in WriteFaults}

\* A request that never reached the store saw none of its behaviour.
NoEnv == [out |-> "unused"]
Seen(env, eff) == IF eff.conns = 0 THEN NoEnv ELSE env

\* -------------------------------------------------------------------- state
VARIABLES
    req,            \* the last request: endpoint, input, store behaviour seen
    resp,           \* its response
    eff,            \* what it did to the store
    rainfall_data,  \* committed rows of rainfall_data (ids)
    flood_alerts,   \* committed rows of flood_alerts (ids)
    rain_seq,       \* last value of rainfall_data's id sequence
    alert_seq,      \* last value of flood_alerts' id sequence
    open_conns,     \* connections opened and not closed by the code
    g_rows,         \* a row sequence handed to the projection
    g_out           \* its FeatureCollection

vars ==
    <<req, resp, eff, rainfall_data, flood_alerts, rain_seq, alert_seq,
      open_conns, g_rows, g_out>>

store == <<rainfall_data, flood_alerts, rain_seq, alert_seq>>
geo == <<g_rows, g_out>>

NoOutput == [type |-> "none", features |-> <<>>]

\* The values of req and resp between requests.
NoReq == [endpoint |-> "none", data |-> <<>>, env |-> NoEnv]
NoResp == Resp(0, "none", NoBody)

Init ==
    /\ req = NoReq
    /\ resp = NoResp
    /\ eff = NoEff
    /\ rainfall_data = {}
    /\ flood_alerts = {}
    /\ rain_seq = 0
    /\ alert_seq = 0
    /\ open_conns = 0
    /\ g_rows = <<>>
    /\ g_out = NoOutput

\* No request is being handled.
Idle == req = NoReq

\* A request arrives and its view function runs to its return: r is what the
\* view function returned and did. A connection it opened and did not close
\* stays open.
Answer(endpoint, data, env, r) ==
    /\ req' = [endpoint |-> endpoint, data |-> data, env |-> Seen(env, r.eff)]
    /\ resp' = r.resp
    /\ eff' = r.eff
    /\ open_conns + r.eff.opened - r.eff.closed <= MaxOpen
    /\ open_conns' = open_conns + r.eff.opened - r.eff.closed

Health ==
    /\ Idle
    /\ \E env \in ReadEnvs({<<>>}) :
          Answer("health", <<>>, env, health_check(env))
    /\ UNCHANGED <<store, geo>>

GetCollection ==
    /\ Idle
    /\ \E ep \in CollectionEndpoints, env \in ReadEnvs(StoreRowSeqs) :
          \E args \in ArgsOf(ep) :
             Answer(ep, args, env, get_collection(ep, args, env))
    /\ UNCHANGED <<store, geo>>

GetRegion ==
    /\ Idle
    /\ \E region_id \in {1, 9}, mode \in Modes :
          \E env \in ReadEnvs({<<>>} \cup
                        {<<RowOf(region_id, g, GeoAbsent)>> :
                            g \in {GeoNull, GeoStr(PointText)}}) :
             Answer("regions/id", region_id, env,
                    get_region(region_id, env, mode))
    /\ UNCHANGED <<store, geo>>

GetStatistics ==
    /\ Idle
    /\ \E env \in ReadEnvs({<<[total_regions |-> Cardinality(Regions)]>>}) :
          Answer("statistics", <<>>, env, get_statistics(env))
    /\ UNCHANGED <<store, geo>>

CalculateRisk ==
    /\ Idle
    /\ \E data \in RiskBodies, mode \in Modes :
          \E env \in ReadEnvs({<<[risk_score |-> Some(s)]>> : s \in Scores}
                              \cup {<<[risk_score |-> None]>>}) :
             Answer("calculate-risk", data, env, calculate_risk(data, env, mode))
    /\ UNCHANGED <<store, geo>>

AddRainfall ==
    /\ Idle
    /\ rain_seq + alert_seq < MaxIds
    /\ \E data \in RainfallBodies, env \in WriteEnvs, mode \in Modes :
          LET r == add_rainfall(data, env, mode, rain_seq + 1)
          IN  /\ Answer("rainfall/add", data, env, r)
              /\ rain_seq' = IF r.eff.inserted # 0 THEN rain_seq + 1 ELSE rain_seq
              /\ rainfall_data' = IF r.eff.committed
                                  THEN rainfall_data \cup {r.eff.inserted}
                                  ELSE rainfall_data
    /\ UNCHANGED <<flood_alerts, alert_seq, geo>>

CreateAlert ==
    /\ Idle
    /\ rain_seq + alert_seq < MaxIds
    /\ \E data \in AlertBodies, env \in WriteEnvs, mode \in Modes :
          LET r == create_alert(data, env, mode, alert_seq + 1)
          IN  /\ Answer("alerts/create", data, env, r)
              /\ alert_seq' = IF r.eff.inserted # 0 THEN alert_seq + 1
                              ELSE alert_seq
              /\ flood_alerts' = IF r.eff.committed
                                 THEN flood_alerts \cup {r.eff.inserted}
                                 ELSE flood_alerts
    /\ UNCHANGED <<rainfall_data, rain_seq, geo>>

\* A path no route matches: the registered 404 handler answers.
UnknownRoute ==
    /\ Idle
    /\ Answer("unknown", <<>>, NoEnv, [resp |-> not_found, eff |-> NoEff])
    /\ UNCHANGED <<store, geo>>

\* The response is sent and the next request awaited.
Respond ==
    /\ req # NoReq
    /\ req' = NoReq
    /\ resp' = NoResp
    /\ eff' = NoEff
    /\ UNCHANGED <<store, open_conns, geo>>

Next ==
    \/ Respond
    \/ Health
    \/ GetCollection
    \/ GetRegion
    \/ GetStatistics
    \/ CalculateRisk
    \/ AddRainfall
    \/ CreateAlert
    \/ UnknownRoute

Spec == Init /\ [][Next]_vars

\* ---------------------------------------------- the projection on its own
\* Rows as any query could give them: each of geom and geometry absent, NULL,
\* empty, unparseable or a geometry.
GeoValues ==
    {GeoAbsent, GeoNull, GeoStr(""), GeoStr(BadText), GeoStr(PointText),
     GeoStr(PolygonText)}

GeoInit ==
    /\ req = NoReq
    /\ resp = NoResp
    /\ eff = NoEff
    /\ rainfall_data = {}
    /\ flood_alerts = {}
    /\ rain_seq = 0
    /\ alert_seq = 0
    /\ open_conns = 0
    /\ g_rows = <<>>
    /\ g_out = NoOutput

\* The query's result gains a row (its id is its position).
GeoFetch ==
    /\ g_out = NoOutput
    /\ Len(g_rows) < MaxRows
    /\ \E g \in GeoValues, y \in GeoValues :
          g_rows' = Append(g_rows, RowOf(Len(g_rows) + 1, g, y))
    /\ UNCHANGED <<req, resp, eff, store, open_conns, g_out>>

\* geojson_from_query on a query that returned g_rows.
GeoProject ==
    /\ g_out = NoOutput
    /\ g_out' = Project(Some(g_rows))
    /\ UNCHANGED <<req, resp, eff, store, open_conns, g_rows>>

GeoNext == GeoFetch \/ GeoProject

SpecGeo == GeoInit /\ [][GeoNext]_vars

\* ===================================================================== claims
Levels == {"low", "moderate", "high", "critical"}

\* The score the store returned to the calculate-risk request being answered.
ScoreSeen == req.env.rows[1].risk_score.v

RiskAnswered == req.endpoint = "calculate-risk" /\ resp.status = 200

\* C1: the risk_level and description calculate-risk reports are those of
\* the threshold table applied to the unrounded score (>= 75 critical, else
\* >= 50 high, else >= 25 moderate, else low; bounds closed), the level is one
\* of the four, and only the reported risk_score is rounded to 2 decimals.
C1_LevelOfUnroundedScore ==
    RiskAnswered =>
        /\ resp.body.risk_level \in Levels
        /\ ScoreSeen >= 75000 =>
              /\ resp.body.risk_level = "critical"
              /\ resp.body.description =
                    "Severe flood risk - immediate action required"
        /\ (ScoreSeen < 75000 /\ ScoreSeen >= 50000) =>
              /\ resp.body.risk_level = "high"
              /\ resp.body.description =
                    "High flood risk - stay alert and prepared"
        /\ (ScoreSeen < 50000 /\ ScoreSeen >= 25000) =>
              /\ resp.body.risk_level = "moderate"
              /\ resp.body.description =
                    "Moderate flood risk - monitor conditions"
        /\ ScoreSeen < 25000 =>
              /\ resp.body.risk_level = "low"
              /\ resp.body.description = "Low flood risk"
        /\ resp.body.risk_score = Round2(ScoreSeen)

\* A score of 74.999 is reported as 75.0 and classified high.
C1_Witness ==
    /\ RiskAnswered
    /\ ScoreSeen = 74999
    /\ resp.body.risk_score = 75000
    /\ resp.body.risk_level = "high"

\* The payload a row carries: the text under geom if that is non-empty, else
\* the text under geometry ("" when neither holds one).
PayloadOf(row) ==
    IF "geom" \in DOMAIN row /\ row["geom"].k = "text" /\ row["geom"].s # ""
    THEN row["geom"].s
    ELSE IF "geometry" \in DOMAIN row /\ row["geometry"].k = "text"
    THEN row["geometry"].s
    ELSE ""

\* The geometry a payload parses to.
ParsedOf(text) ==
    IF text = PointText THEN [type |-> "Point"] ELSE [type |-> "Polygon"]

\* The rows of g_rows that carry a non-empty payload that parses.
KeptRows == {i \in 1..Len(g_rows) : PayloadOf(g_rows[i]) \in {PointText, PolygonText}}

\* The k-th kept row, in row order.
KeptRow(k) == CHOOSE i \in KeptRows : Cardinality({j \in KeptRows : j <= i}) = k

\* C2: geojson_from_query returns a FeatureCollection with exactly one
\* Feature per row that carries a non-empty payload that parses, in row
\* order, and none for any other row; each Feature has type "Feature", the
\* parsed payload of its row as geometry and the row's columns other than
\* geom and geometry as properties.
C2_OneFeaturePerParsedRow ==
    g_out # NoOutput =>
        /\ g_out.type = "FeatureCollection"
        /\ Len(g_out.features) = Cardinality(KeptRows)
        /\ \A k \in 1..Len(g_out.features) :
              LET f == g_out.features[k]
                  row == g_rows[KeptRow(k)]
              IN  /\ f.type = "Feature"
                  /\ f.geometry = ParsedOf(PayloadOf(row))
                  /\ DOMAIN f.properties = DOMAIN row \ {"geom", "geometry"}
                  /\ \A c \in DOMAIN f.properties : f.properties[c] = row[c]

\* A row whose payload does not parse is skipped and the row after it kept.
C2_Witness ==
    /\ g_out # NoOutput
    /\ Len(g_rows) = 2
    /\ PayloadOf(g_rows[1]) = BadText
    /\ Len(g_out.features) = 1
    /\ g_out.features[1].properties["id"] = 2
    /\ g_out.features[1].geometry = [type |-> "Polygon"]

StoreFailed == req.env.out \in {"connfail", "queryfail"}

\* C3: a collection endpoint whose store cannot be reached or whose query
\* fails answers 200 with {type: "FeatureCollection", features: []}, under
\* every filter combination; the features key is present in every
\* collection response.
C3_FailedCollectionIsEmpty ==
    req.endpoint \in CollectionEndpoints =>
        /\ resp.status = 200
        /\ resp.by = "handler"
        /\ "features" \in DOMAIN resp.body
        /\ StoreFailed =>
              /\ DOMAIN resp.body = {"type", "features"}
              /\ resp.body.type = "FeatureCollection"
              /\ resp.body.features = <<>>

\* A filtered risk-zones request whose query fails.
C3_Witness ==
    /\ req.endpoint = "risk-zones"
    /\ req.data["region_id"] = Num(1)
    /\ req.env.out = "queryfail"
    /\ resp.status = 200
    /\ resp.body.features = <<>>

HasError == "error" \in DOMAIN resp.body

\* C4 as claimed: GET /api/regions/{id} and GET /api/statistics answer a
\* connectivity or query failure with 500 and an error body, and
\* /api/regions/{id} answers 404 only when the query ran and matched no region.
C4_SingleResourceFailureIs500 ==
    req.endpoint \in {"regions/id", "statistics"} =>
        /\ StoreFailed => (resp.status = 500 /\ HasError)
        /\ resp.status = 404 => (req.env.out = "rows" /\ req.env.rows = <<>>)

PostEndpoints == {"calculate-risk", "rainfall/add", "alerts/create"}

\* C5: a request to calculate-risk, rainfall/add or alerts/create answered
\* 400 has called get_db_connection zero times and executed no statement,
\* and leaves the store as it was.
C5_RejectedNeverTouchesStore ==
    [][(req'.endpoint \in PostEndpoints /\ resp'.status = 400) =>
          /\ eff'.conns = 0
          /\ eff'.opened = 0
          /\ eff'.stmts = 0
          /\ UNCHANGED store]_vars

\* rainfall/add rejects a body whose station_id is 0 without a connection.
C5_Witness ==
    /\ req.endpoint = "rainfall/add"
    /\ req.data.k = "object"
    /\ req.data.station_id = Num(0)
    /\ resp.status = 400
    /\ eff.conns = 0

\* A calculate-risk request whose body is a JSON object lacking lat or lng.
LacksCoord ==
    /\ req.endpoint = "calculate-risk"
    /\ req.data.k = "object"
    /\ (req.data.lat = Absent \/ req.data.lng = Absent)

EmptyObject ==
    req.data.k = "object" /\ ~req.data.extra
    /\ req.data.lat = Absent /\ req.data.lng = Absent

ErrorBody(msg) == DOMAIN resp.body = {"error"} /\ resp.body.error = msg

\* C6 as claimed: a JSON object body lacking lat or lng, the empty object
\* included, is answered 400 with body {"error": "lat and lng required"}.
C6_MissingCoordsMessage ==
    LacksCoord => (resp.status = 400 /\ ErrorBody("lat and lng required"))

\* C6 amended: a non-empty JSON object body lacking lat or lng is answered
\* 400 with {"error": "lat and lng required"}; the empty object {} is
\* answered 400 with {"error": "No data provided"}.
C6_MissingCoordsMessageNonEmpty ==
    LacksCoord =>
        /\ resp.status = 400
        /\ resp.by = "handler"
        /\ IF EmptyObject THEN ErrorBody("No data provided")
           ELSE ErrorBody("lat and lng required")

\* A body with lat and without lng.
C6_Witness ==
    /\ LacksCoord
    /\ req.data.lat = Num(-1539)
    /\ resp.status = 400
    /\ resp.body.error = "lat and lng required"

\* A coordinate that float() converts.
Convertible(v) == v.k \in {"num", "numstr"}

\* C7 as claimed: calculate-risk answers 400 when lat or lng is missing or
\* not convertible to float; when both are present and convertible it queries
\* the store with (lng, lat) and answers 200 with success true and the
\* classifier's level when a score comes back, 500 with {success: false,
\* error: "Could not calculate risk - insufficient data"} when none does.
C7_CoordinateValidation ==
    (req.endpoint = "calculate-risk" /\ req.data.k = "object") =>
        IF Convertible(req.data.lat) /\ Convertible(req.data.lng)
        THEN /\ eff.conns = 1
             /\ eff.stmts = 1 => eff.params = <<req.data.lng.n, req.data.lat.n>>
             /\ \/ /\ resp.status = 200
                   /\ resp.body.success = TRUE
                   /\ resp.body.risk_level = RiskLevel(ScoreSeen).level
                \/ /\ resp.status = 500
                   /\ DOMAIN resp.body = {"success", "error"}
                   /\ resp.body.success = FALSE
                   /\ resp.body.error =
                         "Could not calculate risk - insufficient data"
        ELSE resp.status = 400

WriteEndpoints == {"rainfall/add", "alerts/create"}

\* The table a write endpoint inserts into.
TableOf(endpoint) ==
    IF endpoint = "rainfall/add" THEN rainfall_data ELSE flood_alerts

\* C8 as claimed: a rainfall/add or alerts/create request that reaches the
\* write path and does not end in 200 has had its transaction rolled back,
\* has committed no row, and is answered 500 with {error: <message>} by the
\* view function; one that ends in 200 has its row committed.
C8_FailedWriteRolledBack ==
    (req.endpoint \in WriteEndpoints /\ eff.conns > 0) =>
        IF resp.status = 200
        THEN eff.committed /\ eff.inserted \in TableOf(req.endpoint)
        ELSE /\ eff.tx \in {"none", "rolled_back"}
             /\ ~eff.committed
             /\ resp.status = 500
             /\ resp.by = "handler"
             /\ HasError

\* The request supplies the mandatory fields of its endpoint.
MandatorySupplied ==
    /\ req.data.k = "object"
    /\ IF req.endpoint = "rainfall/add"
       THEN req.data.station_id # Absent /\ req.data.rainfall_mm # Absent
       ELSE req.data.region_id # Absent /\ req.data.message # Absent

\* C9 as claimed: a rainfall/add or alerts/create request that supplies
\* the mandatory fields and whose INSERT executes without a database
\* exception is answered 200 with success true and the generated id, the
\* omitted optional fields defaulted (duration_hours 1; alert_level "warning"
\* and duration_hours 24), for region ids of regions and of no region alike.
C9_WriteAnswered200 ==
    (/\ req.endpoint \in WriteEndpoints
     /\ MandatorySupplied
     /\ eff.stmts = 1
     /\ req.env.fault = "none") =>
        /\ resp.status = 200
        /\ resp.body.success = TRUE
        /\ IF req.endpoint = "rainfall/add"
           THEN /\ resp.body.id = eff.inserted
                /\ req.data.duration_hours = Absent => eff.params[3] = Num(1)
           ELSE /\ resp.body.alert_id = eff.inserted
                /\ req.data.alert_level = Absent =>
                      eff.params[2] = [k |-> "str", n |-> 7]
                /\ req.data.duration_hours = Absent => eff.params[4] = Num(24)

ErrorStatus == resp.status \in {400, 404, 500}

\* C10 as claimed: every response with status 400, 404 or 500, from any
\* endpoint including /api/health and from the generic fallbacks, has a JSON
\* body with an error key.
C10_ErrorBodyHasErrorKey == ErrorStatus => HasError

\* C10 amended: every response with status 400, 404 or 500 that a view
\* function other than health_check returns, or that the registered 404 / 500
\* handlers return, has a JSON body with an error key; health_check's 500 has
\* the keys status ("unhealthy"), database and timestamp and no error key.
\* (Pages Flask builds itself, for a body that is not JSON or for a
\* propagated exception, are not JSON.)
C10_ErrorBodyHasErrorKeyExceptHealth ==
    (ErrorStatus /\ resp.by \in {"handler", "errorhandler"}) =>
        IF req.endpoint = "health"
        THEN /\ DOMAIN resp.body = {"status", "database", "timestamp"}
             /\ resp.body.status = "unhealthy"
        ELSE HasError

\* calculate-risk's 500 carries the error key beside success: false.
C10_Witness ==
    /\ req.endpoint = "calculate-risk"
    /\ resp.status = 500
    /\ resp.by = "handler"
    /\ DOMAIN resp.body = {"success", "error"}

\* C11 as claimed: every connection a handler acquires (in execute_query,
\* health_check, add_rainfall or create_alert) is closed before the handler
\* returns, on every exit path including the one where a statement raises, so
\* that after any sequence of requests no connection is open.
C11_ConnectionsReleased ==
    /\ eff.opened = eff.closed
    /\ open_conns = 0

\* The text a row holds under a key: "" for a key it lacks and for NULL.
TextAt(row, key) ==
    IF key \in DOMAIN row /\ row[key].k = "text" THEN row[key].s ELSE ""

\* The positions in the output of the Features of row i (a row's id is its
\* position in g_rows).
FeaturesOfRow(i) ==
    {k \in 1..Len(g_out.features) : g_out.features[k].properties["id"] = i}

\* Row i is projected from the column key alone: to one Feature with that
\* column's parsed text as geometry, or to none if the text is empty or does
\* not parse.
ProjectedFrom(i, key) ==
    LET text == TextAt(g_rows[i], key)
    IN  IF text \in {PointText, PolygonText}
        THEN /\ Cardinality(FeaturesOfRow(i)) = 1
             /\ \A k \in FeaturesOfRow(i) :
                   g_out.features[k].geometry = ParsedOf(text)
        ELSE FeaturesOfRow(i) = {}

\* C12 as claimed: geojson_from_query takes a row's payload from geom
\* whenever the row has a geom key and consults geometry only when the row
\* has no geom key; so a row whose geom key is present with an empty value
\* is dropped, whatever its geometry column holds.
C12_GeomKeyTakesPrecedence ==
    g_out # NoOutput =>
        \A i \in 1..Len(g_rows) :
            ProjectedFrom(i, IF "geom" \in DOMAIN g_rows[i] THEN "geom"
                             ELSE "geometry")

\* C12 amended: geojson_from_query takes a row's payload from geom whenever
\* the row's geom value is non-empty, and consults geometry whenever the row
\* has no geom key or its geom value is empty (NULL or ""); so a row whose
\* geom key is present with an empty value is projected from its geometry
\* column, and dropped only if that is absent, empty or does not parse.
C12_GeomValueTakesPrecedence ==
    g_out # NoOutput =>
        \A i \in 1..Len(g_rows) :
            ProjectedFrom(i, IF TextAt(g_rows[i], "geom") # "" THEN "geom"
                             ELSE "geometry")

\* A row with a geom key holding NULL or "" and a polygon under geometry
\* yields a Feature with that polygon.
C12_Witness ==
    /\ g_out # NoOutput
    /\ \E i \in 1..Len(g_rows) :
          /\ "geom" \in DOMAIN g_rows[i]
          /\ TextAt(g_rows[i], "geom") = ""
          /\ TextAt(g_rows[i], "geometry") = PolygonText
          /\ \E k \in FeaturesOfRow(i) :
                g_out.features[k].geometry = [type |-> "Polygon"]

====
